---- MODULE Spec2Model ----
\* Student attendance system (core_logic/attendance_system.cpp):
\* the in-memory record store, its hand-written JSON-like serializer,
\* and the one-shot command process around them.
\*
\* A std::string is a sequence of one-character strings; std::map<int, ...>
\* is a function whose DOMAIN is the set of keys present.
EXTENDS Integers, Sequences, FiniteSets, TLC

VARIABLES
    attendance,   \* the map of the AttendanceSystem object (of the last process run)
    result,       \* what the last call returned / the last process printed
    lastOp,       \* the last call or command line
    marked,       \* the (roll number, date) pairs whose mark was made / reported success
    file,         \* attendance_data.json
    original,     \* the store handed to saveData in the serializer runs
    entries,      \* the key/value entries a hand-written file text was built from
    runs,         \* number of command invocations so far
    allWritten,   \* every saveData so far could open the file
    proc,         \* the concurrently running command processes
    pc

vars == <<attendance, result, lastOp, marked, file, original, entries, runs,
          allWritten, proc, pc>>

\* ---------------------------------------------------------------- bounds
MaxEntries == 2
MaxRuns == 3

\* ------------------------------------------------------------ characters
\* The value of a char as unsigned char (ASCII), which is what
\* std::string::compare orders by.
CharCode(c) ==
    CASE c = "\t" -> 9   [] c = "\n" -> 10  [] c = "\f" -> 12  [] c = "\r" -> 13
      [] c = " " -> 32   [] c = "\"" -> 34  [] c = "+" -> 43   [] c = "," -> 44
      [] c = "-" -> 45   [] c = "0" -> 48   [] c = "1" -> 49   [] c = "2" -> 50
      [] c = "3" -> 51   [] c = "4" -> 52   [] c = "5" -> 53   [] c = "6" -> 54
      [] c = "7" -> 55   [] c = "8" -> 56   [] c = "9" -> 57   [] c = ":" -> 58
      [] c = "[" -> 91   [] c = "\\" -> 92  [] c = "]" -> 93   [] c = "a" -> 97
      [] c = "b" -> 98   [] c = "n" -> 110  [] c = "r" -> 114  [] c = "t" -> 116
      [] c = "x" -> 120  [] c = "{" -> 123  [] c = "}" -> 125

IsDigit(c) == c \in {"0", "1", "2", "3", "4", "5", "6", "7", "8", "9"}

DigitChar(d) == CASE d = 0 -> "0" [] d = 1 -> "1" [] d = 2 -> "2" [] d = 3 -> "3"
                  [] d = 4 -> "4" [] d = 5 -> "5" [] d = 6 -> "6" [] d = 7 -> "7"
                  [] d = 8 -> "8" [] d = 9 -> "9"

\* The characters std::isspace accepts and the trim set " \t\n\r\f\v" of
\* loadData (\v has no TLA+ string escape and is not in any modelled text).
Whitespace == {" ", "\t", "\n", "\r", "\f"}

\* -------------------------------------------------------------- strings
RECURSIVE StrLess(_, _)
\* operator< on std::string: lexicographic by unsigned char, a proper prefix
\* is smaller.
StrLess(a, b) ==
    IF b = <<>> THEN FALSE
    ELSE IF a = <<>> THEN TRUE
    ELSE IF CharCode(Head(a)) < CharCode(Head(b)) THEN TRUE
    ELSE IF CharCode(Head(a)) > CharCode(Head(b)) THEN FALSE
    ELSE StrLess(Tail(a), Tail(b))

RECURSIVE InsertSorted(_, _)
InsertSorted(v, s) ==
    IF v = <<>> THEN <<s>>
    ELSE IF StrLess(s, Head(v)) THEN <<s>> \o v
    ELSE <<Head(v)>> \o InsertSorted(Tail(v), s)

RECURSIVE SortStrings(_)
\* std::sort(begin, end) on a vector<string>: the ascending permutation.
SortStrings(v) ==
    IF v = <<>> THEN <<>>
    ELSE InsertSorted(SortStrings(Tail(v)), Head(v))

\* std::find(begin, end, date) != end
Contains(v, s) == \E i \in 1..Len(v) : v[i] = s

RECURSIVE Digits(_)
Digits(n) == IF n < 10 THEN <<DigitChar(n)>>
             ELSE Digits(n \div 10) \o <<DigitChar(n % 10)>>

\* operator<<(int) / std::to_string(int): decimal, '-' for negatives.
IntToStr(n) == IF n < 0 THEN <<"-">> \o Digits(0 - n) ELSE Digits(n)

RECURSIVE escape_json_string(_)
escape_json_string(s) ==
    IF s = <<>> THEN <<>>
    ELSE LET c == Head(s)
             e == IF c = "\"" THEN <<"\\", "\"">>
                  ELSE IF c = "\\" THEN <<"\\", "\\">>
                  ELSE IF c = "\n" THEN <<"\\", "n">>
                  ELSE IF c = "\r" THEN <<"\\", "r">>
                  ELSE IF c = "\t" THEN <<"\\", "t">>
                  ELSE <<c>>
         IN  e \o escape_json_string(Tail(s))

\* ------------------------------------------------------------ std::stoi
IntMax == 2147483647
IntMin == (0 - IntMax) - 1

RECURSIVE SkipSpace(_)
SkipSpace(s) == IF s # <<>> /\ Head(s) \in Whitespace THEN SkipSpace(Tail(s)) ELSE s

RECURSIVE AccumulateDigits(_, _)
\* The digits of the longest digit prefix, accumulated as a non-positive
\* number so that INT_MIN is representable; "range" when it leaves int.
AccumulateDigits(s, acc) ==
    IF s = <<>> \/ ~IsDigit(Head(s)) THEN [range |-> FALSE, neg |-> acc]
    ELSE LET d == CharCode(Head(s)) - 48
         IN  IF acc < 0 - 214748364 \/ (acc = 0 - 214748364 /\ d > 8)
             THEN [range |-> TRUE, neg |-> 0]
             ELSE AccumulateDigits(Tail(s), acc * 10 - d)

\* std::stoi(str): skips leading whitespace, takes an optional sign and the
\* longest run of digits, ignores what follows; throws invalid_argument
\* when there is no digit and out_of_range when the value is not an int.
\* ok: no exception; val: the int returned.
StoiValue(sign, acc) ==
    IF acc.range THEN [ok |-> FALSE, val |-> 0]
    ELSE IF sign = "-" THEN [ok |-> TRUE, val |-> acc.neg]
    ELSE IF acc.neg = IntMin THEN [ok |-> FALSE, val |-> 0]
    ELSE [ok |-> TRUE, val |-> 0 - acc.neg]

StoiDigits(sign, body) ==
    IF body = <<>> \/ ~IsDigit(Head(body)) THEN [ok |-> FALSE, val |-> 0]
    ELSE StoiValue(sign, AccumulateDigits(body, 0))

StoiSigned(s) ==
    IF s # <<>> /\ Head(s) \in {"+", "-"} THEN StoiDigits(Head(s), Tail(s))
    ELSE StoiDigits("+", s)

Stoi(str) == StoiSigned(SkipSpace(str))

\* ------------------------------------------------------------- the store
\* std::map<int, std::vector<std::string>> attendance, default-constructed.
EmptyStore == <<>>

\* attendance[rollNo]: the vector at rollNo (default-inserted when absent).
At(att, rollNo) == IF rollNo \in DOMAIN att THEN att[rollNo] ELSE <<>>

Put(att, rollNo, v) ==
    [k \in DOMAIN att \cup {rollNo} |-> IF k = rollNo THEN v ELSE att[k]]

RECURSIVE KeysAscending(_)
\* iteration order of std::map: ascending keys.
KeysAscending(S) ==
    IF S = {} THEN <<>>
    ELSE LET m == CHOOSE x \in S : \A y \in S : x <= y
         IN  <<m>> \o KeysAscending(S \ {m})

markAttendance_nosort(att, rollNo, date) ==
    IF ~Contains(At(att, rollNo), date)
    THEN [att |-> Put(att, rollNo, Append(At(att, rollNo), date)),
          res |-> [status |-> "success", kind |-> "marked",
                   roll_no |-> IntToStr(rollNo), date |-> date]]
    ELSE [att |-> Put(att, rollNo, At(att, rollNo)),
          res |-> [status |-> "error", kind |-> "already marked",
                   roll_no |-> IntToStr(rollNo), date |-> date]]

markAttendance_nofind(att, rollNo, date) ==
    [att |-> Put(att, rollNo, SortStrings(Append(At(att, rollNo), date))),
     res |-> [status |-> "success", kind |-> "marked",
              roll_no |-> IntToStr(rollNo), date |-> date]]

\* The new map and the returned JSON object (its fields).
markAttendance(att, rollNo, date) ==
    IF ~Contains(At(att, rollNo), date)
    THEN [att |-> Put(att, rollNo, SortStrings(Append(At(att, rollNo), date))),
          res |-> [status |-> "success", kind |-> "marked",
                   roll_no |-> IntToStr(rollNo), date |-> date]]
    ELSE [att |-> Put(att, rollNo, At(att, rollNo)),
          res |-> [status |-> "error", kind |-> "already marked",
                   roll_no |-> IntToStr(rollNo), date |-> date]]

viewAttendance_insert(att, rollNo) ==
    [att |-> Put(att, rollNo, At(att, rollNo)),
     res |-> [status |-> "success", kind |-> "dates", roll_no |-> IntToStr(rollNo),
              dates |-> [i \in 1..Len(At(att, rollNo)) |->
                            escape_json_string(At(att, rollNo)[i])]]]

\* const: the map is returned as it was.
viewAttendance(att, rollNo) ==
    IF rollNo \in DOMAIN att
    THEN [att |-> att,
          res |-> [status |-> "success", kind |-> "dates", roll_no |-> IntToStr(rollNo),
                   dates |-> [i \in 1..Len(att[rollNo]) |->
                                 escape_json_string(att[rollNo][i])]]]
    ELSE [att |-> att,
          res |-> [status |-> "error", kind |-> "not found",
                   roll_no |-> IntToStr(rollNo), dates |-> <<>>]]

RECURSIVE StatsLoop(_, _, _, _)
\* The loop of getOverallStats over the map's pairs.
StatsLoop(att, keys, totalAttendanceEntries, uniqueDates) ==
    IF keys = <<>>
    THEN [entries |-> totalAttendanceEntries, unique |-> uniqueDates]
    ELSE LET v == att[Head(keys)]
         IN  StatsLoop(att, Tail(keys), totalAttendanceEntries + Len(v),
                       uniqueDates \cup {v[i] : i \in 1..Len(v)})

StatsJson_entriesAsDates(totalStudents, acc) ==
    [status |-> "success", kind |-> "stats",
     total_students |-> totalStudents,
     total_unique_dates |-> acc.entries,
     total_attendance_entries |-> acc.entries]

\* The JSON object built from the loop's totals.
StatsJson(totalStudents, acc) ==
    [status |-> "success", kind |-> "stats",
     total_students |-> totalStudents,
     total_unique_dates |-> Cardinality(acc.unique),
     total_attendance_entries |-> acc.entries]

getOverallStats(att) ==
    StatsJson(Cardinality(DOMAIN att), StatsLoop(att, KeysAscending(DOMAIN att), 0, {}))

\* ---------------------------------------------------------- the serializer
RECURSIVE JoinDates(_)
\* The inner loop of saveData: "<escaped>" items separated by commas.
JoinDates(v) ==
    IF v = <<>> THEN <<>>
    ELSE (IF Len(v) > 1 THEN JoinDates(SubSeq(v, 1, Len(v) - 1)) \o <<",">> ELSE <<>>)
         \o <<"\"">> \o escape_json_string(v[Len(v)]) \o <<"\"">>

RECURSIVE JoinStudents(_, _)
\* The outer loop of saveData: "<id>":[...] items separated by commas.
JoinStudents(att, keys) ==
    IF keys = <<>> THEN <<>>
    ELSE LET k == keys[Len(keys)]
         IN  (IF Len(keys) > 1
              THEN JoinStudents(att, SubSeq(keys, 1, Len(keys) - 1)) \o <<",">>
              ELSE <<>>)
             \o <<"\"">> \o IntToStr(k) \o <<"\"", ":", "[">>
             \o JoinDates(att[k]) \o <<"]">>

\* The text saveData writes to the stream.
saveData(att) == <<"{">> \o JoinStudents(att, KeysAscending(DOMAIN att)) \o <<"}">>

\* s.find(c): the first position of c (1-based), 0 for npos.
Find(s, c) ==
    IF \E i \in 1..Len(s) : s[i] = c
    THEN CHOOSE i \in 1..Len(s) : s[i] = c /\ \A j \in 1..(i - 1) : s[j] # c
    ELSE 0

\* length() >= 2 && front() == open && back() == close
Wrapped(s, open, close) == Len(s) >= 2 /\ s[1] = open /\ s[Len(s)] = close

\* substr(1, length() - 2)
Interior(s) == SubSeq(s, 2, Len(s) - 1)

\* Removes one layer of surrounding quotes if present.
StripQuotes(s) == IF Wrapped(s, "\"", "\"") THEN Interior(s) ELSE s

\* erase(0, find_first_not_of(ws)); erase(find_last_not_of(ws) + 1)
Trim(s) ==
    LET keep == {i \in 1..Len(s) : s[i] \notin Whitespace}
    IN  IF keep = {} THEN <<>>
        ELSE SubSeq(s, CHOOSE i \in keep : \A j \in keep : i <= j,
                       CHOOSE i \in keep : \A j \in keep : i >= j)

RECURSIVE GetLines(_)
\* The pieces successive std::getline(date_ss, date_segment, ',') calls
\* yield: the text between commas; nothing after a final comma.
GetLines(s) ==
    IF s = <<>> THEN <<>>
    ELSE LET k == Find(s, ",")
         IN  IF k = 0 THEN <<s>>
             ELSE <<SubSeq(s, 1, k - 1)>> \o GetLines(SubSeq(s, k + 1, Len(s)))

\* One piece as the loop body stores it: trimmed, one layer of quotes off.
DatesOf(pieces) == [i \in 1..Len(pieces) |-> StripQuotes(Trim(pieces[i]))]

\* The while loop over the pieces, then std::sort(attendance[rollNo]).
PushDates(att, rollNo, value_str) ==
    Put(att, rollNo, SortStrings(At(att, rollNo) \o DatesOf(GetLines(value_str))))

\* segment.substr(0, colon_pos), quotes removed if present.
KeyOf(segment) == StripQuotes(SubSeq(segment, 1, Find(segment, ":") - 1))

\* segment.substr(colon_pos + 1)
ValueOf(segment) == SubSeq(segment, Find(segment, ":") + 1, Len(segment))

\* After int rollNo = std::stoi(key_str) in the loop. threw: stoi threw.
StoreEntryBeforeComma(att, rollNo, value_str) ==
    IF ~rollNo.ok THEN [threw |-> TRUE, att |-> att]
    ELSE IF ~Wrapped(value_str, "[", "]") THEN [threw |-> FALSE, att |-> att]
    ELSE [threw |-> FALSE, att |-> PushDates(att, rollNo.val, Interior(value_str))]

\* One segment that ends at a top-level comma.
EntryBeforeComma(att, segment) ==
    IF Find(segment, ":") = 0 THEN [threw |-> FALSE, att |-> att]
    ELSE StoreEntryBeforeComma(att, Stoi(KeyOf(segment)), ValueOf(segment))

\* After int rollNo = std::stoi(key_str) for the last segment.
StoreLastEntry(att, rollNo, value_str) ==
    IF ~rollNo.ok THEN [threw |-> TRUE, att |-> att]
    ELSE [threw |-> FALSE,
          att |-> PushDates(att, rollNo.val,
                            IF Wrapped(value_str, "[", "]")
                            THEN Interior(value_str) ELSE value_str)]

\* The segment after the last top-level comma.
LastEntry(att, segment) ==
    IF Find(segment, ":") = 0 THEN [threw |-> FALSE, att |-> att]
    ELSE StoreLastEntry(att, Stoi(KeyOf(segment)), ValueOf(segment))

\* brace_count / bracket_count after the character c.
Depth(count, c, open, close) ==
    IF c = open THEN count + 1 ELSE IF c = close THEN count - 1 ELSE count

RECURSIVE ScanLoop(_, _, _, _, _, _)
RECURSIVE AfterEntry(_, _, _, _, _, _)
\* The for loop over json_str from index i (1-based), with the loop's
\* locals (the counts as they are after json_str[i - 1]); ends with the
\* first position of the last segment.
ScanLoop(att, json_str, i, start, brace_count, bracket_count) ==
    IF i > Len(json_str) THEN [threw |-> FALSE, att |-> att, start |-> start]
    ELSE IF /\ json_str[i] = ","
            /\ brace_count = 0
            /\ bracket_count = 0
         THEN AfterEntry(EntryBeforeComma(att, SubSeq(json_str, start, i - 1)),
                         json_str, i, start, brace_count, bracket_count)
         ELSE ScanLoop(att, json_str, i + 1, start,
                       Depth(brace_count, json_str[i], "{", "}"),
                       Depth(bracket_count, json_str[i], "[", "]"))

\* The rest of the loop after the entry e before the comma at i.
AfterEntry(e, json_str, i, start, brace_count, bracket_count) ==
    IF e.threw THEN [threw |-> TRUE, att |-> e.att, start |-> start]
    ELSE ScanLoop(e.att, json_str, i + 1, i + 1, brace_count, bracket_count)

OnParseError_keep(att) == [ok |-> FALSE, why |-> "ParseError", att |-> att]

\* The catch block: attendance.clear(); return false.
OnParseError(att) == [ok |-> FALSE, why |-> "ParseError", att |-> EmptyStore]

\* A persisted file: absent, or its text.
NoFile == [exists |-> FALSE, text |-> <<>>]
FileOf(text) == [exists |-> TRUE, text |-> text]

\* return true, or the catch block when the last entry threw.
ParseDone(last) ==
    IF last.threw THEN OnParseError(last.att)
    ELSE [ok |-> TRUE, why |-> "Ok", att |-> last.att]

\* "Process the last segment" after the loop, or the catch block when the
\* loop threw.
ParseLast(scan, json_str) ==
    IF scan.threw THEN OnParseError(scan.att)
    ELSE ParseDone(LastEntry(scan.att, SubSeq(json_str, scan.start, Len(json_str))))

\* The try block on json_str, the text between the outer braces.
ParseEntries(att, json_str) == ParseLast(ScanLoop(att, json_str, 1, 1, 0, 0), json_str)

\* loadData on a store att (empty at process start) and the file f:
\* the returned bool, the branch taken and the store afterwards.
loadData(att, f) ==
    IF ~f.exists THEN [ok |-> FALSE, why |-> "NoFile", att |-> att]
    ELSE IF f.text = <<>> THEN [ok |-> FALSE, why |-> "Empty", att |-> att]
    ELSE IF ~Wrapped(f.text, "{", "}")
         THEN [ok |-> FALSE, why |-> "InvalidFormat", att |-> att]
    ELSE ParseEntries(att, Interior(f.text))

\* ------------------------------------------------- the record store alone
\* A sequence of calls on one AttendanceSystem object.
RollNos == {101, 102, 999}
D0701 == <<"2", "0", "2", "5", "-", "0", "7", "-", "0", "1">>
D0702 == <<"2", "0", "2", "5", "-", "0", "7", "-", "0", "2">>
Dates == {D0701, D0702, <<"a", "\"">>}

NoResult == [status |-> "none", kind |-> "none"]
NoOp == [op |-> "none", rollNo |-> 0, date |-> <<>>]

Init ==
    /\ attendance = EmptyStore
    /\ result = NoResult
    /\ lastOp = NoOp
    /\ marked = {}
    /\ file = NoFile
    /\ original = EmptyStore
    /\ entries = <<>>
    /\ runs = 0
    /\ allWritten = TRUE
    /\ proc = <<>>
    /\ pc = "store"

Mark(rollNo, date) ==
    \E r \in {markAttendance(attendance, rollNo, date)} :
        /\ pc = "store"
        /\ attendance' = r.att
        /\ result' = r.res
        /\ lastOp' = [op |-> "mark", rollNo |-> rollNo, date |-> date]
        /\ marked' = marked \cup {<<rollNo, date>>}
        /\ UNCHANGED <<file, original, entries, runs, allWritten, proc, pc>>

View(rollNo) ==
    \E r \in {viewAttendance(attendance, rollNo)} :
        /\ pc = "store"
        /\ attendance' = r.att
        /\ result' = r.res
        /\ lastOp' = [op |-> "view", rollNo |-> rollNo, date |-> <<>>]
        /\ UNCHANGED <<marked, file, original, entries, runs, allWritten, proc, pc>>

Stats ==
    /\ pc = "store"
    /\ result' = getOverallStats(attendance)
    /\ lastOp' = [op |-> "stats", rollNo |-> 0, date |-> <<>>]
    /\ UNCHANGED <<attendance, marked, file, original, entries, runs, allWritten, proc, pc>>

Next ==
    \/ \E rollNo \in RollNos, date \in Dates : Mark(rollNo, date)
    \/ \E rollNo \in RollNos : View(rollNo)
    \/ Stats

Spec == Init /\ [][Next]_vars

\* The dates marked so far for one roll number.
MarkedFor(rollNo) == {p[2] : p \in {q \in marked : q[1] = rollNo}}

\* C1: after any sequence of markAttendance calls from the empty store, the
\* date vector of every roll number present is strictly ascending in the
\* lexicographic order of std::string, hence holds no date twice.
C1_SortedNoDuplicates ==
    \A k \in DOMAIN attendance :
        \A i \in 1..Len(attendance[k]) : \A j \in 1..Len(attendance[k]) :
            i < j => StrLess(attendance[k][i], attendance[k][j])

\* C1 witness: a duplicate mark was refused on a roll number whose vector
\* holds three dates.
C1_Witness ==
    /\ lastOp.op = "mark"
    /\ result.kind = "already marked"
    /\ Len(At(attendance, lastOp.rollNo)) >= 3

\* C2: a markAttendance(id, date) call on a store without date for id
\* succeeds and lengthens id's vector by one; the same call made right after
\* a successful one returns the duplicate error for id and date and leaves
\* the store unchanged; a viewAttendance(id) right after a mark of (id, date)
\* lists date exactly once.
C2_MarkTwice ==
    [][\A rollNo \in RollNos : \A date \in Dates :
        LET call == [op |-> "mark", rollNo |-> rollNo, date |-> date]
        IN  /\ (lastOp' = call /\ ~Contains(At(attendance, rollNo), date))
                => /\ result'.status = "success"
                   /\ Len(At(attendance', rollNo)) = Len(At(attendance, rollNo)) + 1
            /\ (lastOp = call /\ result.status = "success" /\ lastOp' = call)
                => /\ result' = [status |-> "error", kind |-> "already marked",
                                 roll_no |-> IntToStr(rollNo), date |-> date]
                   /\ attendance' = attendance
            /\ (lastOp = call /\ lastOp'.op = "view" /\ lastOp'.rollNo = rollNo)
                => /\ result'.status = "success"
                   /\ Cardinality({i \in 1..Len(result'.dates) :
                                     result'.dates[i] = escape_json_string(date)}) = 1
      ]_vars

\* C2 witness: the second of two equal marks was refused and the vector
\* holds the one date.
C2_Witness ==
    /\ lastOp.op = "mark"
    /\ result.kind = "already marked"
    /\ At(attendance, lastOp.rollNo) = <<lastOp.date>>

\* C4: in every reachable store getOverallStats succeeds with
\* total_students the number of roll numbers present, total_unique_dates the
\* number of distinct dates over all vectors and total_attendance_entries the
\* sum of the vector lengths; (0, 0, 0) on the empty store and (2, 2, 3)
\* after mark(101, 2025-07-01), mark(101, 2025-07-02), mark(102, 2025-07-01).
C4_Stats ==
    LET s == getOverallStats(attendance)
        scenario == Put(Put(EmptyStore, 101, <<D0701, D0702>>), 102, <<D0701>>)
        triple(r) == <<r.total_students, r.total_unique_dates, r.total_attendance_entries>>
    IN  /\ s.status = "success"
        /\ s.total_students = Cardinality(DOMAIN attendance)
        /\ s.total_unique_dates =
             Cardinality(UNION {{attendance[k][i] : i \in 1..Len(attendance[k])} :
                                  k \in DOMAIN attendance})
        /\ s.total_attendance_entries =
             Cardinality({<<k, i>> \in (DOMAIN attendance) \X (1..Cardinality(Dates)) :
                            i <= Len(attendance[k])})
        /\ attendance = EmptyStore => triple(s) = <<0, 0, 0>>
        /\ attendance = scenario => triple(s) = <<2, 2, 3>>
        /\ lastOp.op = "stats" => result = s

\* C4 witness: stats was called on the store of the scenario.
C4_Witness ==
    /\ lastOp.op = "stats"
    /\ attendance = Put(Put(EmptyStore, 101, <<D0701, D0702>>), 102, <<D0701>>)
    /\ result.total_attendance_entries = 3

\* C5: after any sequence of marks, viewAttendance(id) returns the not-found
\* error for id exactly when no mark of id was made, and otherwise a success
\* carrying id and id's whole vector, ascending, which holds exactly the
\* distinct dates marked for id; views add no roll number to the store.
C5_View ==
    /\ DOMAIN attendance = {p[1] : p \in marked}
    /\ lastOp.op = "view" =>
         LET id == lastOp.rollNo
         IN  /\ result.roll_no = IntToStr(id)
             /\ (result.status = "error") <=> (MarkedFor(id) = {})
             /\ result.status = "error" => result.kind = "not found"
             /\ result.status = "success" =>
                  /\ Len(result.dates) = Cardinality(MarkedFor(id))
                  /\ Len(result.dates) = Len(attendance[id])
                  /\ \A i \in 1..Len(result.dates) :
                        /\ attendance[id][i] \in MarkedFor(id)
                        /\ result.dates[i] = escape_json_string(attendance[id][i])
                        /\ \A j \in 1..(i - 1) :
                              StrLess(attendance[id][j], attendance[id][i])

\* C5 witness: a view of a roll number with several dates, while another
\* roll number was never marked.
C5_Witness ==
    /\ lastOp.op = "view"
    /\ result.status = "success"
    /\ Len(result.dates) >= 2
    /\ 999 \notin DOMAIN attendance

\* ------------------------------------------------------ the serializer alone
\* saveData of a valid store followed by loadData in a fresh object, and
\* loadData of hand-written file texts.
CodecRollNos == {101, 102}
CodecDates == {<<"b">>, <<"a", "\"">>, <<"\\">>, <<"a", ",", "b">>}

RECURSIVE SetToSeq(_)
SetToSeq(S) == IF S = {} THEN <<>>
               ELSE LET x == CHOOSE y \in S : TRUE IN <<x>> \o SetToSeq(S \ {x})

\* The stores with a sorted, duplicate-free, non-empty vector per roll number.
ValidStores ==
    UNION {{[k \in K |-> SortStrings(SetToSeq(f[k]))] :
              f \in [K -> (SUBSET CodecDates) \ {{}}]} : K \in SUBSET CodecRollNos}

\* Keys: quoted, bare, with text after the digits (std::stoi takes the digit
\* prefix), no integer at all, and quoted after a blank (not unquoted, and
\* std::stoi stops at the quote).
Keys == {<<"\"", "1", "0", "1", "\"">>, <<"1", "0", "2">>, <<"1", "0", "1", "x">>,
         <<"\"", "x", "\"">>, <<" ", "\"", "1", "0", "2", "\"">>}
Values == {<<"[", "\"", "b", "\"", "]">>, <<"b">>,
           <<"[", "\"", "b", "\"", ",", "\"", "a", "\"", "]">>}
EntryPool == [key : Keys, value : Values]
Shapes == {"braced", "bare", "open"}

RECURSIVE EntryLists(_)
EntryLists(n) ==
    IF n = 0 THEN {<<>>}
    ELSE EntryLists(n - 1) \cup
         {Append(l, e) : l \in {m \in EntryLists(n - 1) : Len(m) = n - 1}, e \in EntryPool}

RECURSIVE JoinEntries(_)
JoinEntries(es) ==
    IF es = <<>> THEN <<>>
    ELSE (IF Len(es) > 1 THEN JoinEntries(SubSeq(es, 1, Len(es) - 1)) \o <<",">> ELSE <<>>)
         \o es[Len(es)].key \o <<":">> \o es[Len(es)].value

TextOf(es, shape) ==
    (IF shape = "bare" THEN <<>> ELSE <<"{">>) \o JoinEntries(es)
    \o (IF shape = "braced" THEN <<"}">> ELSE <<>>)

InitCodec ==
    /\ attendance = EmptyStore
    /\ result = NoResult
    /\ marked = {}
    /\ runs = 0
    /\ allWritten = TRUE
    /\ proc = <<>>
    /\ \/ /\ pc = "toEncode"
          /\ original \in ValidStores
          /\ entries = <<>>
          /\ file = NoFile
          /\ lastOp = [op |-> "encode", shape |-> "braced"]
       \/ /\ pc = "toDecode"
          /\ original = EmptyStore
          /\ entries \in EntryLists(MaxEntries)
          /\ \E shape \in Shapes :
                /\ file = FileOf(TextOf(entries, shape))
                /\ lastOp = [op |-> "text", shape |-> shape]

Encode ==
    /\ pc = "toEncode"
    /\ file' = FileOf(saveData(original))
    /\ pc' = "toDecode"
    /\ UNCHANGED <<attendance, result, lastOp, marked, original, entries, runs,
                   allWritten, proc>>

Decode ==
    \E l \in {loadData(EmptyStore, file)} :
        /\ pc = "toDecode"
        /\ attendance' = l.att
        /\ result' = [status |-> IF l.ok THEN "loaded" ELSE "failed", kind |-> l.why]
        /\ pc' = "decoded"
        /\ UNCHANGED <<lastOp, marked, file, original, entries, runs, allWritten, proc>>

NextCodec == Encode \/ Decode

SpecCodec == InitCodec /\ [][NextCodec]_vars

DateSet(v) == {v[i] : i \in 1..Len(v)}

\* C3: loadData of the text saveData wrote for a valid store succeeds with
\* the same roll numbers and, per roll number, the same set of dates.
C3_RoundTrip ==
    (pc = "decoded" /\ lastOp.op = "encode") =>
        /\ result.kind = "Ok"
        /\ DOMAIN attendance = DOMAIN original
        /\ \A k \in DOMAIN original : DateSet(attendance[k]) = DateSet(original[k])

\* The entries whose value is wrapped in brackets.
RECURSIVE WrappedOnly(_)
WrappedOnly(es) ==
    IF es = <<>> THEN <<>>
    ELSE (IF Wrapped(Head(es).value, "[", "]") THEN <<Head(es)>> ELSE <<>>)
         \o WrappedOnly(Tail(es))

KeyParses(e) == Stoi(StripQuotes(e.key)).ok

\* C7: in a braced text whose keys all parse, loadData succeeds and every
\* entry whose value is not wrapped in brackets, at any position, adds
\* nothing: the store is the one decoded from the text without those entries.
C7_UnwrappedSkipped ==
    (/\ pc = "decoded"
     /\ lastOp.op = "text"
     /\ lastOp.shape = "braced"
     /\ \A i \in 1..Len(entries) : KeyParses(entries[i])) =>
        /\ result.kind = "Ok"
        /\ attendance =
             loadData(EmptyStore, FileOf(TextOf(WrappedOnly(entries), "braced"))).att

Args == {<<"1", "0", "1">>, <<"1", "0", "2">>, <<"x">>}
CliDates == {<<"b">>, <<"a", "\"">>}
Commands == {"mark", "view", "stats", "list"}

CliVarsInit ==
    /\ attendance = EmptyStore
    /\ result = NoResult
    /\ lastOp = [op |-> "none"]
    /\ marked = {}
    /\ original = EmptyStore
    /\ entries = <<>>
    /\ runs = 0
    /\ allWritten = TRUE
    /\ proc = <<>>
    /\ pc = "cli"

\* No persisted file yet.
InitCli == CliVarsInit /\ file = NoFile

\* Files found at the first invocation: none, a well-formed one, one without
\* the closing brace, one whose second key is no integer.
StartFiles ==
    {NoFile,
     FileOf(saveData(Put(EmptyStore, 101, <<<<"b">>>>))),
     FileOf(TextOf(<<[key |-> <<"\"", "1", "0", "1", "\"">>,
                      value |-> <<"[", "\"", "b", "\"", "]">>]>>, "open")),
     FileOf(TextOf(<<[key |-> <<"\"", "1", "0", "1", "\"">>,
                      value |-> <<"[", "\"", "b", "\"", "]">>],
                     [key |-> <<"\"", "x", "\"">>,
                      value |-> <<"[", "\"", "b", "\"", "]">>]>>, "braced"))}

InitCliFile == CliVarsInit /\ file \in StartFiles

\* The part of every run before the command: one more invocation.
Started == pc = "cli" /\ runs < MaxRuns /\ runs' = runs + 1

\* The mark branch after system.loadData() gave l and std::stoi(argv[2])
\* gave rollNo; writeOk: the ofstream of saveData opens.
MarkCommand(l, m, arg, rollNo, date, writeOk) ==
    /\ lastOp' = [op |-> "mark", arg |-> arg, date |-> date,
                  load |-> l.why, writeOk |-> writeOk]
    /\ IF rollNo.ok
       THEN /\ attendance' = m.att
            /\ result' = m.res
            /\ marked' = IF m.res.status = "success"
                         THEN marked \cup {<<rollNo.val, date>>} ELSE marked
            /\ file' = IF writeOk THEN FileOf(saveData(m.att)) ELSE file
            /\ allWritten' = (allWritten /\ writeOk)
       ELSE /\ attendance' = l.att
            /\ result' = [status |-> "error", kind |-> "invalid roll number"]
            /\ UNCHANGED <<marked, file, allWritten>>
    /\ UNCHANGED <<original, entries, proc, pc>>

\* mark <roll_no> <date>
RunMark(arg, date, writeOk) ==
    /\ Started
    /\ \E l \in {loadData(EmptyStore, file)} :
       \E rollNo \in {Stoi(arg)} :
       \E m \in {markAttendance(l.att, rollNo.val, date)} :
          MarkCommand(l, m, arg, rollNo, date, writeOk)

\* The view branch after system.loadData() gave l.
ViewCommand(l, v, arg, rollNo) ==
    /\ lastOp' = [op |-> "view", arg |-> arg, load |-> l.why]
    /\ attendance' = IF rollNo.ok THEN v.att ELSE l.att
    /\ result' = IF rollNo.ok THEN v.res
                 ELSE [status |-> "error", kind |-> "invalid roll number"]
    /\ UNCHANGED <<marked, original, entries, allWritten, proc, pc>>

RunView_saves(arg) ==
    /\ Started
    /\ \E l \in {loadData(EmptyStore, file)} :
       \E rollNo \in {Stoi(arg)} :
       \E v \in {viewAttendance(l.att, rollNo.val)} :
          /\ ViewCommand(l, v, arg, rollNo)
          /\ file' = FileOf(saveData(l.att))

\* view <roll_no>
RunView(arg) ==
    /\ Started
    /\ \E l \in {loadData(EmptyStore, file)} :
       \E rollNo \in {Stoi(arg)} :
       \E v \in {viewAttendance(l.att, rollNo.val)} :
          /\ ViewCommand(l, v, arg, rollNo)
          /\ UNCHANGED file

\* stats
RunStats ==
    /\ Started
    /\ \E l \in {loadData(EmptyStore, file)} :
          /\ lastOp' = [op |-> "stats", load |-> l.why]
          /\ attendance' = l.att
          /\ result' = getOverallStats(l.att)
    /\ UNCHANGED <<marked, file, original, entries, allWritten, proc, pc>>

\* No command, a known command with the wrong number of arguments, or an
\* unknown command: the data is loaded and an error object is printed.
RunUsage(command) ==
    /\ Started
    /\ \E l \in {loadData(EmptyStore, file)} :
          /\ lastOp' = [op |-> "usage", command |-> command, load |-> l.why]
          /\ attendance' = l.att
    /\ result' = [status |-> "error",
                  kind |-> IF command \in {"mark", "view", "stats", ""}
                           THEN "usage" ELSE "unknown command"]
    /\ UNCHANGED <<marked, file, original, entries, allWritten, proc, pc>>

NextCli ==
    \/ \E arg \in Args, date \in CliDates, writeOk \in BOOLEAN : RunMark(arg, date, writeOk)
    \/ \E arg \in Args : RunView(arg)
    \/ RunStats
    \/ \E command \in Commands \cup {""} : RunUsage(command)

SpecCli == InitCli /\ [][NextCli]_vars

SpecCliFile == InitCliFile /\ [][NextCli]_vars

\* C9: in a run of invocations from no file in which every write succeeded,
\* once mark id date has reported success, a later mark id date reports the
\* duplicate error and a later view id lists date.
C9_MarkPersists ==
    [][\A p \in marked :
         (allWritten' /\ runs' = runs + 1 /\ lastOp'.op \in {"mark", "view"}
            /\ Stoi(lastOp'.arg).ok /\ Stoi(lastOp'.arg).val = p[1]) =>
            /\ (lastOp'.op = "mark" /\ lastOp'.date = p[2])
                  => result'.kind = "already marked"
            /\ lastOp'.op = "view"
                  => /\ result'.status = "success"
                     /\ Contains(result'.dates, escape_json_string(p[2]))
      ]_vars

\* C10: a mark invocation whose load fails on the file's format reports
\* success and, when the write succeeds, leaves a file that is saveData of
\* the store holding the marked roll number with the marked date alone; view
\* and stats invocations leave the file as it is.
C10_LoadFailureOverwrites ==
    [][runs' = runs + 1 =>
         /\ lastOp'.op \in {"view", "stats"} => file' = file
         /\ (/\ lastOp'.op = "mark"
             /\ Stoi(lastOp'.arg).ok
             /\ loadData(EmptyStore, file).why \in {"InvalidFormat", "ParseError"}) =>
                /\ result'.status = "success"
                /\ lastOp'.writeOk =>
                     file' = FileOf(saveData(
                                Put(EmptyStore, Stoi(lastOp'.arg).val, <<lastOp'.date>>)))
      ]_vars

\* C10 witness: a mark ran on a file whose second key was no integer, and
\* the file now holds the one new record.
C10_Witness ==
    /\ lastOp.op = "mark"
    /\ lastOp.load = "ParseError"
    /\ lastOp.writeOk
    /\ result.status = "success"
    /\ file = FileOf(saveData(attendance))
    /\ Cardinality(DOMAIN attendance) = 1

\* ------------------------------------------- two mark processes at once
\* Two `mark` invocations running against the same file with nothing that
\* orders them. A process is at "start", has "loaded", has "marked", has the
\* output stream "open" (the file is truncated) or is "done" (the text, all
\* of it still in the stream buffer for files this small, was written at
\* offset 0 when the stream closed).
Procs == {"p1", "p2"}
RaceMarks == {<<101, D0701>>, <<101, <<"b">>>>, <<102, <<"b">>>>}
RaceFiles == {NoFile, FileOf(saveData(Put(EmptyStore, 101, <<<<"b">>>>)))}

InitRace ==
    /\ attendance = EmptyStore
    /\ result = NoResult
    /\ lastOp = [op |-> "none"]
    /\ marked = {}
    /\ original = EmptyStore
    /\ entries = <<>>
    /\ runs = 0
    /\ allWritten = TRUE
    /\ pc = "race"
    /\ file \in RaceFiles
    /\ \E args \in [Procs -> RaceMarks] :
          proc = [p \in Procs |->
                    [pc |-> "start", rollNo |-> args[p][1], date |-> args[p][2],
                     attendance |-> EmptyStore, loaded |-> NoFile,
                     result |-> NoResult, doneBefore |-> {}]]

RaceUnchanged ==
    UNCHANGED <<attendance, result, lastOp, marked, original, entries, runs,
                allWritten, pc>>

\* system.loadData() of process p.
ProcLoad(p) ==
    /\ pc = "race"
    /\ proc[p].pc = "start"
    /\ proc' = [proc EXCEPT ![p].pc = "loaded",
                            ![p].attendance = loadData(EmptyStore, file).att,
                            ![p].loaded = file]
    /\ UNCHANGED file
    /\ RaceUnchanged

\* system.markAttendance(rollNo, date) of process p.
ProcMark(p) ==
    \E m \in {markAttendance(proc[p].attendance, proc[p].rollNo, proc[p].date)} :
        /\ pc = "race"
        /\ proc[p].pc = "loaded"
        /\ proc' = [proc EXCEPT ![p].pc = "marked",
                                ![p].attendance = m.att,
                                ![p].result = m.res]
        /\ UNCHANGED file
        /\ RaceUnchanged

ProcOpen_reload(p) ==
    /\ pc = "race"
    /\ proc[p].pc = "marked"
    /\ proc' = [proc EXCEPT
                  ![p].pc = "open",
                  ![p].attendance = markAttendance(loadData(EmptyStore, file).att,
                                                   proc[p].rollNo, proc[p].date).att,
                  ![p].doneBefore = {q \in Procs : proc[q].pc = "done"}]
    /\ file' = FileOf(<<>>)
    /\ RaceUnchanged

\* saveData of process p, std::ofstream outFile(DATA_FILENAME): the file is
\* created or truncated. doneBefore: the processes that had finished by then.
ProcOpen(p) ==
    /\ pc = "race"
    /\ proc[p].pc = "marked"
    /\ proc' = [proc EXCEPT ![p].pc = "open",
                            ![p].doneBefore = {q \in Procs : proc[q].pc = "done"}]
    /\ file' = FileOf(<<>>)
    /\ RaceUnchanged

\* The file after new is written at offset 0 of a file holding old.
WriteAtStart(old, new) == new \o SubSeq(old, Len(new) + 1, Len(old))

\* saveData of process p, outFile.close(): the buffered text reaches the file.
ProcWrite(p) ==
    /\ pc = "race"
    /\ proc[p].pc = "open"
    /\ proc' = [proc EXCEPT ![p].pc = "done"]
    /\ file' = FileOf(WriteAtStart(file.text, saveData(proc[p].attendance)))
    /\ RaceUnchanged

NextRace ==
    \E p \in Procs : ProcLoad(p) \/ ProcMark(p) \/ ProcOpen(p) \/ ProcWrite(p)

SpecRace == InitRace /\ [][NextRace]_vars

\* Whether the store a file text decodes to holds date for rollNo.
FileHolds(f, rollNo, date) == Contains(At(loadData(EmptyStore, f).att, rollNo), date)

\* Both processes are done, loaded the same file state, which held neither
\* of their two different pairs, and second saved after first had finished.
LostUpdateRun(first, second) ==
    /\ first # second
    /\ proc[first].pc = "done"
    /\ proc[second].pc = "done"
    /\ proc[first].loaded = proc[second].loaded
    /\ <<proc[first].rollNo, proc[first].date>> # <<proc[second].rollNo, proc[second].date>>
    /\ ~FileHolds(proc[first].loaded, proc[first].rollNo, proc[first].date)
    /\ ~FileHolds(proc[first].loaded, proc[second].rollNo, proc[second].date)
    /\ first \in proc[second].doneBefore

\* C6: nothing coordinates two mark processes: whenever both loaded the same
\* file state and one saved after the other had finished, both reported
\* success and the file is the second writer's text, without the pair the
\* first writer marked.
C6_LostUpdate ==
    pc = "race" =>
        \A first \in Procs : \A second \in Procs :
            LostUpdateRun(first, second) =>
                /\ proc[first].result.status = "success"
                /\ proc[second].result.status = "success"
                /\ file = FileOf(saveData(proc[second].attendance))
                /\ FileHolds(file, proc[second].rollNo, proc[second].date)
                /\ ~FileHolds(file, proc[first].rollNo, proc[first].date)

\* C6 witness: such a run exists.
C6_Witness ==
    /\ pc = "race"
    /\ \E first \in Procs : \E second \in Procs : LostUpdateRun(first, second)

====
